---- MODULE Spec2Model ----
(***************************************************************************)
(* Model of readthedocs/proxito/views.py: the doc-serving view serve_docs  *)
(* with its decorators map_project_slug and map_subproject_slug, the root  *)
(* redirect view redirect_project_slug, and the process-wide settings the  *)
(* view reads and writes; and of readthedocs/search/faceted_search.py: the *)
(* constructor of RTDFacetedSearch.                                        *)
(*                                                                         *)
(* Strings that the code slices, joins or searches (filenames, query       *)
(* strings, URLs, storage paths) are sequences of tokens; slugs are atomic *)
(* strings.  Python's None is the string "None"; a missing Version is the  *)
(* empty tuple.                                                            *)
(***************************************************************************)
EXTENDS Naturals, Sequences, FiniteSets, TLC

VARIABLES settings, pc, request, locals, calls, response, search

vars == <<settings, pc, request, locals, calls, response, search>>

\* Number of worker threads that handle requests concurrently (SpecConc).
NumWorkers == 2

Workers == 1 .. NumWorkers

None == "None"

NoVersion == <<>>

\* Python truthiness of an optional string (views.py:51, 94, 174, 179).
Truthy(s) == s # None /\ s # ""

-----------------------------------------------------------------------------
(* The persisted data the view reads (Project, ProjectRelationship,        *)
(* Version); read-only for this code.                                      *)

ProjectTable ==
    [slug \in {"acme", "acme-fr", "solo", "solo-fr", "sub-a", "sub-a-fr", "docs"} |->
        CASE slug = "acme"     -> [language |-> "en", single_version |-> FALSE, default_version |-> "latest"]
          [] slug = "acme-fr"  -> [language |-> "fr", single_version |-> FALSE, default_version |-> "latest"]
          [] slug = "solo"     -> [language |-> "en", single_version |-> TRUE,  default_version |-> "stable"]
          [] slug = "solo-fr"  -> [language |-> "fr", single_version |-> FALSE, default_version |-> "latest"]
          [] slug = "sub-a"    -> [language |-> "en", single_version |-> TRUE,  default_version |-> "stable"]
          [] slug = "sub-a-fr" -> [language |-> "fr", single_version |-> TRUE,  default_version |-> "stable"]
          [] slug = "docs"     -> [language |-> "en", single_version |-> FALSE, default_version |-> "latest"]]

ProjectSlugs == DOMAIN ProjectTable

\* main_language_project links: translation |-> the project it translates.
TranslationTable ==
    {<<"acme", "acme-fr">>, <<"solo", "solo-fr">>, <<"sub-a", "sub-a-fr">>}

\* ProjectRelationship rows in primary-key order (the order .first() uses).
RelationshipTable ==
    << [parent |-> "acme", child |-> "docs",  alias |-> None],
       [parent |-> "acme", child |-> "sub-a", alias |-> "docs"],
       [parent |-> "solo", child |-> "docs",  alias |-> "manual"] >>

\* Version rows: <<project slug, version slug>>.
VersionTable ==
    {<<"acme", "latest">>, <<"acme-fr", "latest">>, <<"solo", "stable">>,
     <<"solo-fr", "latest">>, <<"sub-a", "stable">>, <<"sub-a-fr", "stable">>,
     <<"docs", "latest">>}

-----------------------------------------------------------------------------
(* Requests.                                                               *)

HostSlugs == {"acme", "solo", "ghost"}

SubprojectSlugs == {None, "docs", "sub-a", "nosub"}

LangSlugs == {None, "en", "fr"}

VersionSlugs == {None, "latest", "v9"}

\* "<e-acute>" is a non-ASCII character; "%C3%A9" is the text of its
\* percent-escape, present in the filename itself.
Filenames ==
    {<<>>, <<"index.html">>, <<"guide", "/">>, <<"/", "index.html">>,
     <<"<e-acute>", ".html">>, <<"%C3%A9", ".html">>}

QueryStrings == {<<>>, <<"page=2">>, <<"ticket=", "ST-1">>}

Requests ==
    [host_project_slug : HostSlugs,
     subproject_slug   : SubprojectSlugs,
     lang_slug         : LangSlugs,
     version_slug      : VersionSlugs,
     filename          : Filenames,
     query             : QueryStrings,
     is_authenticated  : BOOLEAN]

\* The requests the concurrent specification draws from: one document of one
\* project, with and without the ticket marker, anonymous or authenticated.
ConcRequests ==
    {r \in Requests :
        /\ r.host_project_slug = "acme"
        /\ r.subproject_slug = None
        /\ r.lang_slug = "en"
        /\ r.version_slug = "latest"
        /\ r.filename = <<"index.html">>
        /\ r.query \in {<<>>, <<"ticket=", "ST-1">>}}

NoRequest ==
    [host_project_slug |-> None, subproject_slug |-> None, lang_slug |-> None,
     version_slug |-> None, filename |-> <<>>, query |-> <<>>,
     is_authenticated |-> FALSE]

\* request.get_full_path(): the path the URL patterns matched, then "?" and
\* the query string when there is one.
get_full_path(r) ==
    <<"/">>
    \o (IF Truthy(r.subproject_slug) THEN <<"projects", "/", r.subproject_slug, "/">> ELSE <<>>)
    \o (IF r.lang_slug # None THEN <<r.lang_slug, "/">> ELSE <<>>)
    \o (IF r.version_slug # None THEN <<r.version_slug, "/">> ELSE <<>>)
    \o r.filename
    \o (IF r.query # <<>> THEN <<"?">> \o r.query ELSE <<>>)

\* request.build_absolute_uri(): scheme, host, full path.
build_absolute_uri(r) ==
    <<"http://", r.host_project_slug>> \o get_full_path(r)

\* Index of the first token equal to tok, or 0.
FirstIndex(s, tok) ==
    IF \E i \in 1 .. Len(s) : s[i] = tok
    THEN CHOOSE i \in 1 .. Len(s) : s[i] = tok /\ \A j \in 1 .. (i - 1) : s[j] # tok
    ELSE 0

\* urlparse(u).query: what follows the first "?".
urlparse_query(u) ==
    LET q == FirstIndex(u, "?")
    IN IF q = 0 THEN <<>> ELSE SubSeq(u, q + 1, Len(u))

\* urlparse(u).path: what precedes the first "?", without scheme and host.
urlparse_path(u) ==
    LET q == FirstIndex(u, "?")
        upto == IF q = 0 THEN u ELSE SubSeq(u, 1, q - 1)
    IN IF Len(upto) >= 2 /\ upto[1] \in {"http://", "https://"}
       THEN SubSeq(upto, 3, Len(upto))
       ELSE upto

\* 'ticket=' in <url>
HasTicketMarker(u) == \E i \in 1 .. Len(u) : u[i] = "ticket="

-----------------------------------------------------------------------------
(* Collaborators: storage backend, settings values.                        *)

\* Project.get_storage_path(type_='html', version_slug=..., include_file=False)
get_storage_path(project, version_slug) ==
    <<"html", "/", project, "/", version_slug>>

\* Objects present in the build media storage: the two pages of every built
\* version.
StoredFiles ==
    UNION {{get_storage_path(v[1], v[2]) \o <<"/", "index.html">>,
            get_storage_path(v[1], v[2]) \o <<"/", "guide", "/", "index.html">>}
           : v \in VersionTable}

\* storage.url(path): a signed absolute URL of the object.
storage_url(path) ==
    <<"https://", "media.storage">> \o <<"/">> \o path \o <<"?", "Signature=", "sig">>

\* str.strip('/') on a token sequence.
RECURSIVE strip_slash(_)
strip_slash(s) ==
    IF s = <<>> THEN s
    ELSE IF Head(s) = "/" THEN strip_slash(Tail(s))
    ELSE IF s[Len(s)] = "/" THEN strip_slash(SubSeq(s, 1, Len(s) - 1))
    ELSE s

\* Percent-encoding of the non-ASCII tokens; ASCII tokens are kept.
PercentEncoded ==
    [tok \in {"<e-acute>", "<u-umlaut>"} |->
        IF tok = "<e-acute>" THEN "%C3%A9" ELSE "%C3%BC"]

\* The conversion left out: the path goes into the header as it is.
iri_to_uri_unchanged(iri) == iri

\* django.utils.encoding.iri_to_uri on a token sequence.
iri_to_uri(iri) ==
    [i \in 1 .. Len(iri) |->
        IF iri[i] \in DOMAIN PercentEncoded THEN PercentEncoded[iri[i]] ELSE iri[i]]

\* os.path.join(a, b) on token sequences.
os_path_join2(a, b) ==
    IF b # <<>> /\ Head(b) = "/" THEN b
    ELSE IF a = <<>> \/ a[Len(a)] = "/" THEN a \o b
    ELSE a \o <<"/">> \o b

\* os.path.join(lang_slug, version_slug, filename)
os_path_join(lang_slug, version_slug, filename) ==
    os_path_join2(os_path_join2(<<lang_slug>>, <<version_slug>>), filename)

\* The two values serve_docs assigns to settings.CAS_SERVER_URL, and the value
\* the deployment configured.
InternalCasUrl == "http://web:8000/cas/"

ExternalCasUrl == "http://dev.readthedocs.io/cas/"

ConfiguredCasUrl == "configured"

-----------------------------------------------------------------------------
(* Responses and the view's local variables.                               *)

NoResponse ==
    [kind |-> "none", status |-> 0, resolve_project |-> None,
     resolve_query |-> <<>>, cas_server_url |-> None, next_page |-> <<>>,
     path |-> <<>>, x_accel_redirect |-> <<>>]

\* raise Http404(...)
Http404 == [NoResponse EXCEPT !.kind = "not_found", !.status = 404]

NoLocals ==
    [project |-> None, subproject |-> None, current_project |-> None,
     final_project |-> None, lang_slug |-> None, version_slug |-> None,
     filename |-> <<>>, version |-> NoVersion, has_perm |-> None,
     path |-> <<>>]

\* What one run of a view leaves behind: the response (NoResponse while the
\* CAS login call is still to be made), the collaborator calls in order, the
\* locals, and the value assigned to settings.CAS_SERVER_URL (None: none).
Frame(resp, cs, loc, cas) ==
    [response |-> resp, calls |-> cs, locals |-> loc, cas_server_url |-> cas]

-----------------------------------------------------------------------------
(* The decorators.                                                         *)

\* Project.objects.get(slug=...) succeeds.
ProjectExists(slug) == slug \in ProjectSlugs

\* map_project_slug without the "if project is None" test: the project is
\* looked up again even when one is supplied.
map_project_slug_always_lookup(project, project_slug, host_project_slug) ==
    LET slug == IF ~Truthy(project_slug) THEN host_project_slug ELSE project_slug
    IN IF ProjectExists(slug)
       THEN [raised |-> FALSE, project |-> slug, calls |-> <<"Project.get">>]
       ELSE [raised |-> TRUE, project |-> None, calls |-> <<"Project.get">>]

\* map_project_slug.inner_view up to its call of the wrapped view:
\* the project it passes on, or raised = TRUE for Http404.
map_project_slug(project, project_slug, host_project_slug) ==
    IF project = None
    THEN LET slug == IF ~Truthy(project_slug) THEN host_project_slug ELSE project_slug
         IN IF ProjectExists(slug)
            THEN [raised |-> FALSE, project |-> slug, calls |-> <<"Project.get">>]
            ELSE [raised |-> TRUE, project |-> None, calls |-> <<"Project.get">>]
    ELSE [raised |-> FALSE, project |-> project, calls |-> <<>>]

\* ProjectRelationship.objects.filter(parent=..., alias=...).first():
\* the child of the first such row, or None.
RelationshipByAlias(parent, slug) ==
    LET rows == {i \in DOMAIN RelationshipTable :
                    /\ RelationshipTable[i].parent = parent
                    /\ RelationshipTable[i].alias = slug}
    IN IF rows = {} THEN None
       ELSE RelationshipTable[CHOOSE i \in rows : \A j \in rows : i <= j].child

\* ProjectRelationship.objects.filter(parent=..., child__slug=...).first()
RelationshipByChildSlug(parent, slug) ==
    LET rows == {i \in DOMAIN RelationshipTable :
                    /\ RelationshipTable[i].parent = parent
                    /\ RelationshipTable[i].child = slug}
    IN IF rows = {} THEN None
       ELSE RelationshipTable[CHOOSE i \in rows : \A j \in rows : i <= j].child

\* map_subproject_slug with the two lookups in the other order: the child's
\* own slug first, the alias second.
map_subproject_slug_child_first(project, subproject, subproject_slug) ==
    IF subproject = None /\ Truthy(subproject_slug)
    THEN LET by_alias == RelationshipByAlias(project, subproject_slug)
             by_slug  == RelationshipByChildSlug(project, subproject_slug)
         IN IF by_slug # None
            THEN [raised |-> FALSE, subproject |-> by_slug,
                  calls |-> <<"Relationship.child_slug">>]
            ELSE IF by_alias # None
            THEN [raised |-> FALSE, subproject |-> by_alias,
                  calls |-> <<"Relationship.child_slug", "Relationship.alias">>]
            ELSE [raised |-> TRUE, subproject |-> None,
                  calls |-> <<"Relationship.child_slug", "Relationship.alias">>]
    ELSE [raised |-> FALSE, subproject |-> subproject, calls |-> <<>>]

\* map_subproject_slug.inner_view up to its call of the wrapped view.
map_subproject_slug(project, subproject, subproject_slug) ==
    IF subproject = None /\ Truthy(subproject_slug)
    THEN LET by_alias == RelationshipByAlias(project, subproject_slug)
             by_slug  == RelationshipByChildSlug(project, subproject_slug)
         IN IF by_alias # None
            THEN [raised |-> FALSE, subproject |-> by_alias,
                  calls |-> <<"Relationship.alias">>]
            ELSE IF by_slug # None
            THEN [raised |-> FALSE, subproject |-> by_slug,
                  calls |-> <<"Relationship.alias", "Relationship.child_slug">>]
            ELSE [raised |-> TRUE, subproject |-> None,
                  calls |-> <<"Relationship.alias", "Relationship.child_slug">>]
    ELSE [raised |-> FALSE, subproject |-> subproject, calls |-> <<>>]

-----------------------------------------------------------------------------
(* redirect_project_slug.                                                  *)

\* redirect_project_slug that forgets query_params.
redirect_project_slug_no_query(r, project, subproject) ==
    [response |-> [NoResponse EXCEPT !.kind = "redirect", !.status = 302,
                                     !.resolve_project =
                                         IF subproject # None THEN subproject ELSE project],
     calls |-> <<"resolve">>]

\* redirect_project_slug with its two decorators, called with project and
\* subproject keyword arguments and no slugs: HttpResponseRedirect(resolve(
\* subproject or project, query_params=urlparse(full path).query)).
redirect_project_slug(r, project, subproject) ==
    LET mp == map_project_slug(project, None, r.host_project_slug)
        ms == map_subproject_slug(mp.project, subproject, None)
        target == IF ms.subproject # None THEN ms.subproject ELSE mp.project
    IN IF mp.raised THEN [response |-> Http404, calls |-> mp.calls]
       ELSE IF ms.raised THEN [response |-> Http404, calls |-> mp.calls \o ms.calls]
       ELSE [response |-> [NoResponse EXCEPT !.kind = "redirect", !.status = 302,
                                             !.resolve_project = target,
                                             !.resolve_query = urlparse_query(get_full_path(r))],
             calls |-> mp.calls \o ms.calls \o <<"resolve">>]

-----------------------------------------------------------------------------
(* serve_docs, stage by stage.                                             *)

\* The root test without the single_version condition.
IsRootRequest_any_project(current_project, lang_slug, version_slug, filename) ==
    /\ lang_slug = None
    /\ version_slug = None
    /\ filename = <<>>

\* all([lang_slug is None, version_slug is None, filename == '',
\*      not current_project.single_version])
IsRootRequest(current_project, lang_slug, version_slug, filename) ==
    /\ lang_slug = None
    /\ version_slug = None
    /\ filename = <<>>
    /\ ~ProjectTable[current_project].single_version

\* The check with "and" for "or": only a path missing both slugs is invalid.
IsInvalidUrl_both_missing(current_project, lang_slug, version_slug) ==
    /\ lang_slug = None /\ version_slug = None
    /\ ~ProjectTable[current_project].single_version

\* (lang_slug is None or version_slug is None) and not single_version
IsInvalidUrl(current_project, lang_slug, version_slug) ==
    /\ lang_slug = None \/ version_slug = None
    /\ ~ProjectTable[current_project].single_version

\* Single-version projects addressed like a versioned project: the slugs are
\* folded into the filename and cleared.
FoldSingleVersion(current_project, lang_slug, version_slug, filename) ==
    IF /\ ProjectTable[current_project].single_version
       /\ Truthy(lang_slug)
       /\ Truthy(version_slug)
    THEN [lang_slug |-> None, version_slug |-> None,
          filename |-> os_path_join(lang_slug, version_slug, filename)]
    ELSE [lang_slug |-> lang_slug, version_slug |-> version_slug,
          filename |-> filename]

\* The translation test without the comparison with the project's language.
NeedsTranslation_any_lang(current_project, lang_slug) ==
    Truthy(lang_slug)

\* not (not lang_slug or lang_slug == current_project.language)
NeedsTranslation(current_project, lang_slug) ==
    ~(~Truthy(lang_slug) \/ lang_slug = ProjectTable[current_project].language)

\* The lookup over every project's translations instead of the current
\* project's.
GetTranslation_any_parent(current_project, lang_slug) ==
    LET found == {t \in TranslationTable : ProjectTable[t[2]].language = lang_slug}
    IN IF found = {} THEN None ELSE (CHOOSE t \in found : TRUE)[2]

\* current_project.translations.all() filtered by language: the translation,
\* or None when get_object_or_404 raises.
GetTranslation(current_project, lang_slug) ==
    LET found == {t \in TranslationTable :
                     t[1] = current_project /\ ProjectTable[t[2]].language = lang_slug}
    IN IF found = {} THEN None ELSE (CHOOSE t \in found : TRUE)[2]

\* if final_project.single_version: version_slug = get_default_version()
ServedVersionSlug(final_project, version_slug) ==
    IF ProjectTable[final_project].single_version
    THEN ProjectTable[final_project].default_version
    ELSE version_slug

\* Version.objects.for_project(final_project).filter(slug=version_slug).first()
FindVersion(final_project, version_slug) ==
    IF <<final_project, version_slug>> \in VersionTable
    THEN <<final_project, version_slug>>
    ELSE NoVersion

\* The authorization check made for anonymous users only.
AccessGate_anonymous_only(is_authenticated, perm, uri) ==
    [calls |-> IF is_authenticated THEN <<>> ELSE <<"has_perm">>,
     cas_server_url |->
        IF ~perm /\ ~is_authenticated
        THEN IF HasTicketMarker(uri) THEN InternalCasUrl ELSE ExternalCasUrl
        ELSE None]

\* The authorization check: has_perm is called (perm is its answer); the
\* result is the value assigned to settings.CAS_SERVER_URL when the view goes
\* on to the CAS login, None when it goes on to the storage.
AccessGate(is_authenticated, perm, uri) ==
    [calls |-> <<"has_perm">>,
     cas_server_url |->
        IF ~perm /\ ~is_authenticated
        THEN IF HasTicketMarker(uri) THEN InternalCasUrl ELSE ExternalCasUrl
        ELSE None]

\* The storage path without the directory index.
StoragePath_no_index(final_project, version_slug, filename) ==
    get_storage_path(final_project, version_slug) \o <<"/">> \o filename

\* storage_path/filename, with index.html appended to a directory path.
StoragePath(final_project, version_slug, filename) ==
    LET path == get_storage_path(final_project, version_slug) \o <<"/">> \o filename
    IN IF path[Len(path)] = "/" THEN path \o <<"index.html">> ELSE path

\* django.views.static.serve(request, path, root_path)
serve(path) ==
    IF path \in StoredFiles
    THEN [NoResponse EXCEPT !.kind = "serve", !.status = 200, !.path = path]
    ELSE Http404

\* _serve_docs_nginx(request, final_project, path)
_serve_docs_nginx(path) ==
    [NoResponse EXCEPT !.kind = "nginx", !.status = 200, !.path = path,
                       !.x_accel_redirect = iri_to_uri(path)]

\* The nginx mode handing on the signed URL whole, scheme and host included.
Dispatch_keeps_host(python_media, path) ==
    IF python_media
    THEN [response |-> serve(path), calls |-> <<"serve">>]
    ELSE [response |-> _serve_docs_nginx(<<"/", "proxito", "/">> \o storage_url(path)),
          calls |-> <<"storage.url">>]

\* The two serving modes, selected by settings.PYTHON_MEDIA.
Dispatch(python_media, path) ==
    IF python_media
    THEN [response |-> serve(path), calls |-> <<"serve">>]
    ELSE LET url == storage_url(path)
             stripped == strip_slash(urlparse_path(url) \o <<"?">> \o urlparse_query(url))
         IN [response |-> _serve_docs_nginx(<<"/", "proxito", "/">> \o stripped),
             calls |-> <<"storage.url">>]

\* The body of serve_docs from the Version lookup on.
ServeVersion(r, loc, perm, python_media) ==
    LET version_slug == ServedVersionSlug(loc.final_project, loc.version_slug)
        version == FindVersion(loc.final_project, version_slug)
        gate == AccessGate(r.is_authenticated, perm, build_absolute_uri(r))
        path == StoragePath(loc.final_project, version_slug, loc.filename)
        out == Dispatch(python_media, path)
        loc2 == [loc EXCEPT !.version_slug = version_slug, !.version = version,
                            !.has_perm = IF perm THEN "True" ELSE "False"]
    IN IF gate.cas_server_url # None
       THEN Frame(NoResponse, <<"Version.first">> \o gate.calls, loc2, gate.cas_server_url)
       ELSE Frame(out.response, <<"Version.first">> \o gate.calls \o out.calls,
                  [loc2 EXCEPT !.path = path], None)

\* The body of serve_docs.
serve_docs(r, project, subproject, perm, python_media) ==
    LET current_project == IF subproject # None THEN subproject ELSE project
        loc0 == [NoLocals EXCEPT !.project = project, !.subproject = subproject,
                                 !.current_project = current_project,
                                 !.lang_slug = r.lang_slug,
                                 !.version_slug = r.version_slug,
                                 !.filename = r.filename]
        fold == FoldSingleVersion(current_project, r.lang_slug, r.version_slug, r.filename)
        loc1 == [loc0 EXCEPT !.lang_slug = fold.lang_slug,
                             !.version_slug = fold.version_slug,
                             !.filename = fold.filename]
        translation == GetTranslation(current_project, fold.lang_slug)
    IN IF IsRootRequest(current_project, r.lang_slug, r.version_slug, r.filename)
       THEN LET red == redirect_project_slug(r, current_project, None)
            IN Frame(red.response, red.calls, loc0, None)
       ELSE IF IsInvalidUrl(current_project, r.lang_slug, r.version_slug)
       THEN Frame(Http404, <<>>, loc0, None)
       ELSE IF ~NeedsTranslation(current_project, fold.lang_slug)
       THEN ServeVersion(r, [loc1 EXCEPT !.final_project = current_project],
                         perm, python_media)
       ELSE IF translation = None
       THEN Frame(Http404, <<"translations.get">>, loc1, None)
       ELSE LET f == ServeVersion(r, [loc1 EXCEPT !.final_project = translation],
                                  perm, python_media)
            IN [f EXCEPT !.calls = <<"translations.get">> \o f.calls]

\* serve_docs as the URL patterns call it: through map_project_slug and
\* map_subproject_slug, with neither project nor subproject supplied.
serve_docs_view(r, perm, python_media) ==
    LET mp == map_project_slug(None, None, r.host_project_slug)
        ms == map_subproject_slug(mp.project, None, r.subproject_slug)
        f  == serve_docs(r, mp.project, ms.subproject, perm, python_media)
    IN IF mp.raised
       THEN Frame(Http404, mp.calls, NoLocals, None)
       ELSE IF ms.raised
       THEN Frame(Http404, mp.calls \o ms.calls, [NoLocals EXCEPT !.project = mp.project], None)
       ELSE [f EXCEPT !.calls = mp.calls \o ms.calls \o f.calls]

-----------------------------------------------------------------------------
(* faceted_search.py: RTDFacetedSearch.__init__.  Keyword arguments and    *)
(* the filters dict are functions from names to values.                    *)

ALL_FACETS == <<"project", "version", "doc_type", "language", "index">>

SearchClasses == {"DomainSearch", "ProjectSearch", "PageSearch", "AllSearch"}

\* The keys of the class attribute facets, in the order the dict holds them.
facets(cls) ==
    CASE cls = "DomainSearch"  -> <<"project", "version", "doc_type">>
      [] cls = "ProjectSearch" -> <<"language">>
      [] cls = "PageSearch"    -> <<"project", "version">>
      [] cls = "AllSearch"     -> <<"project", "version", "language", "doc_type", "index">>

EmptyDict == <<>>

\* d[k] = v
DictSet(d, k, v) == [x \in DOMAIN d \cup {k} |-> IF x = k THEN v ELSE d[x]]

\* del d[k]
DictDel(d, k) == [x \in DOMAIN d \ {k} |-> d[x]]

\* for facet in self.facets:
\*     if facet in kwargs:
\*         kwargs.setdefault('filters', {})[facet] = kwargs.pop(facet)
RECURSIVE move_facets(_, _)
move_facets(fs, kwargs) ==
    IF fs = <<>> THEN kwargs
    ELSE LET facet == Head(fs)
             filters == IF "filters" \in DOMAIN kwargs THEN kwargs["filters"] ELSE EmptyDict
         IN IF facet \in DOMAIN kwargs
            THEN move_facets(Tail(fs),
                             DictSet(DictDel(kwargs, facet), "filters",
                                     DictSet(filters, facet, kwargs[facet])))
            ELSE move_facets(Tail(fs), kwargs)

\* The second loop left out.
drop_all_facets_skipped(all, kwargs) == kwargs

\* for f in ALL_FACETS:
\*     if f in kwargs:
\*         del kwargs[f]
RECURSIVE drop_all_facets(_, _)
drop_all_facets(all, kwargs) ==
    IF all = <<>> THEN kwargs
    ELSE IF Head(all) \in DOMAIN kwargs
    THEN drop_all_facets(Tail(all), DictDel(kwargs, Head(all)))
    ELSE drop_all_facets(Tail(all), kwargs)

\* RTDFacetedSearch.__init__(self, user, **kwargs): the keyword arguments it
\* passes to FacetedSearch.__init__.
RTDFacetedSearch_init(cls, kwargs) ==
    drop_all_facets(ALL_FACETS, move_facets(facets(cls), kwargs))

\* Keyword names a caller passes, and the values each can have.
KeywordNames == <<"project", "version", "doc_type", "language", "index", "query", "filters">>

KeywordValues(k) ==
    CASE k = "filters" -> {EmptyDict, DictSet(EmptyDict, "project", "old"),
                           DictSet(EmptyDict, "language", "old")}
      [] k = "query"   -> {"install"}
      [] OTHER         -> {"new"}

\* Every dict over the first n keyword names.
RECURSIVE KwargsOver(_)
KwargsOver(n) ==
    IF n = 0 THEN {EmptyDict}
    ELSE LET rest == KwargsOver(n - 1)
         IN rest \cup {DictSet(d, KeywordNames[n], v) :
                          d \in rest, v \in KeywordValues(KeywordNames[n])}

NoSearch == [cls |-> None, kwargs |-> EmptyDict, passed |-> EmptyDict, built |-> FALSE]

-----------------------------------------------------------------------------
(* The process: worker threads handling requests.                          *)

\* The login call with next_page=request.path: the query string is lost.
cas_login_without_query(r, cas_server_url) ==
    [NoResponse EXCEPT !.kind = "cas_login", !.status = 302,
                       !.cas_server_url = cas_server_url,
                       !.next_page = <<"http://", r.host_project_slug>>
                                        \o urlparse_path(get_full_path(r))]

\* cas.views.login(request, next_page=request.build_absolute_uri()): the
\* login challenge, through the CAS server settings name at the call.
cas_login(r, cas_server_url) ==
    [NoResponse EXCEPT !.kind = "cas_login", !.status = 302,
                       !.cas_server_url = cas_server_url,
                       !.next_page = build_absolute_uri(r)]

Init ==
    /\ settings \in [CAS_SERVER_URL : {ConfiguredCasUrl, InternalCasUrl, ExternalCasUrl},
                     PYTHON_MEDIA : BOOLEAN]
    /\ pc = [w \in Workers |-> "idle"]
    /\ request = [w \in Workers |-> NoRequest]
    /\ locals = [w \in Workers |-> NoLocals]
    /\ calls = [w \in Workers |-> <<>>]
    /\ response = [w \in Workers |-> NoResponse]
    /\ search = NoSearch

\* Worker w takes request r and runs serve_docs on it, up to the response or
\* up to the assignment of settings.CAS_SERVER_URL that precedes the CAS
\* login call.  perm is the answer has_perm gives for this request.
Handle(w, r, perm) ==
    /\ pc[w] = "idle"
    /\ LET f == serve_docs_view(r, perm, settings.PYTHON_MEDIA)
       IN /\ request' = [request EXCEPT ![w] = r]
          /\ locals' = [locals EXCEPT ![w] = f.locals]
          /\ calls' = [calls EXCEPT ![w] = f.calls]
          /\ response' = [response EXCEPT ![w] = f.response]
          /\ IF f.cas_server_url # None
             THEN /\ settings' = [settings EXCEPT !.CAS_SERVER_URL = f.cas_server_url]
                  /\ pc' = [pc EXCEPT ![w] = "cas_login"]
             ELSE /\ settings' = settings
                  /\ pc' = [pc EXCEPT ![w] = "done"]
    /\ UNCHANGED search

\* Worker w makes the CAS login call and returns its response.
CasLogin(w) ==
    /\ pc[w] = "cas_login"
    /\ response' = [response EXCEPT ![w] = cas_login(request[w], settings.CAS_SERVER_URL)]
    /\ calls' = [calls EXCEPT ![w] = Append(@, "cas_login")]
    /\ pc' = [pc EXCEPT ![w] = "done"]
    /\ UNCHANGED <<settings, request, locals, search>>

\* The response has been sent; worker w is free for the next request.
Respond(w) ==
    /\ pc[w] = "done"
    /\ pc' = [pc EXCEPT ![w] = "idle"]
    /\ request' = [request EXCEPT ![w] = NoRequest]
    /\ locals' = [locals EXCEPT ![w] = NoLocals]
    /\ calls' = [calls EXCEPT ![w] = <<>>]
    /\ response' = [response EXCEPT ![w] = NoResponse]
    /\ UNCHANGED <<settings, search>>

\* One worker, every request.
HandleAny == \E r \in Requests, perm \in BOOLEAN : Handle(1, r, perm)

CasLoginOne == CasLogin(1)

RespondOne == Respond(1)

Next == HandleAny \/ CasLoginOne \/ RespondOne

Spec == Init /\ [][Next]_vars

\* Several workers, interleaved at the shared settings.
HandleConc == \E w \in Workers, r \in ConcRequests, perm \in BOOLEAN : Handle(w, r, perm)

CasLoginConc == \E w \in Workers : CasLogin(w)

RespondConc == \E w \in Workers : Respond(w)

NextConc == HandleConc \/ CasLoginConc \/ RespondConc

SpecConc == Init /\ [][NextConc]_vars

\* A search object is about to be constructed with some keyword arguments;
\* no request is in hand.
InitSearch ==
    /\ settings = [CAS_SERVER_URL |-> ConfiguredCasUrl, PYTHON_MEDIA |-> FALSE]
    /\ pc = [w \in Workers |-> "idle"]
    /\ request = [w \in Workers |-> NoRequest]
    /\ locals = [w \in Workers |-> NoLocals]
    /\ calls = [w \in Workers |-> <<>>]
    /\ response = [w \in Workers |-> NoResponse]
    /\ search \in {[cls |-> c, kwargs |-> k, passed |-> EmptyDict, built |-> FALSE] :
                      c \in SearchClasses, k \in KwargsOver(Len(KeywordNames))}

\* RTDFacetedSearch.__init__ runs.
Construct ==
    /\ ~search.built
    /\ search.cls # None
    /\ search' = [search EXCEPT !.passed = RTDFacetedSearch_init(search.cls, search.kwargs),
                                !.built = TRUE]
    /\ UNCHANGED <<settings, pc, request, locals, calls, response>>

NextSearch == Construct

SpecSearch == InitSearch /\ [][NextSearch]_vars

-----------------------------------------------------------------------------
(* Vocabulary of the properties.                                           *)

\* Worker w holds the response of its request.
Done(w) == pc[w] = "done"

Called(w, op) == \E i \in DOMAIN calls[w] : calls[w][i] = op

TimesCalled(w, op) == Cardinality({i \in DOMAIN calls[w] : calls[w][i] = op})

\* The storage backend was used: a direct serve or a signed-URL request.
StorageAccessed(w) == Called(w, "serve") \/ Called(w, "storage.url")

\* The endpoint the request's own URL selects.
OwnCasUrl(w) ==
    IF HasTicketMarker(build_absolute_uri(request[w])) THEN InternalCasUrl ELSE ExternalCasUrl

-----------------------------------------------------------------------------
\* C1: a request of an authenticated identity for which has_perm is false is
\* answered with exactly a 401, without redirect and without storage access.
C1_AuthenticatedDeniedGets401 ==
    \A w \in Workers :
        (Done(w) /\ request[w].is_authenticated /\ locals[w].has_perm = "False")
            => /\ response[w].status = 401
               /\ ~StorageAccessed(w)

\* C2: when the Version lookup finds no Version the request ends in a
\* not-found response and the storage is never reached; every request that
\* reaches the storage has a located Version.
C2_NoVersionIsNotFound ==
    \A w \in Workers :
        /\ (Done(w) /\ Called(w, "Version.first") /\ locals[w].version = NoVersion)
              => (response[w].kind = "not_found" /\ ~StorageAccessed(w))
        /\ StorageAccessed(w) => locals[w].version # NoVersion

\* C3: the CAS endpoint in effect when a request's login call runs is the
\* one its own URL selects (internal with the ticket marker, external
\* without), whatever other requests are handled concurrently.
C3_LoginUsesOwnEndpoint ==
    \A w \in Workers :
        (Done(w) /\ response[w].kind = "cas_login")
            => response[w].cas_server_url = OwnCasUrl(w)

\* C4: handling a request never changes the process-wide settings.
C4_SettingsNeverModified == [][settings' = settings]_vars

\* C5: when the resolved project (subproject if given, else the host
\* project) is single-version, the version slug of the Version lookup and of
\* the storage path is that project's default version.
C5_SingleVersionUsesDefault ==
    \A w \in Workers :
        (/\ Called(w, "Version.first")
         /\ ProjectTable[locals[w].current_project].single_version)
            => /\ locals[w].version_slug # None
               /\ locals[w].version_slug
                     = ProjectTable[locals[w].current_project].default_version

\* C6: an anonymous request for which has_perm is false ends in the CAS
\* login challenge whose next_page is the request's absolute URL, query
\* string included, with or without the ticket marker, and never touches the
\* storage.
C6_AnonymousDeniedIsChallenged ==
    \A w \in Workers :
        (~request[w].is_authenticated /\ locals[w].has_perm = "False")
            => /\ ~StorageAccessed(w)
               /\ pc[w] \in {"cas_login", "done"}
               /\ Done(w) =>
                    /\ response[w].kind = "cas_login"
                    /\ response[w].next_page = build_absolute_uri(request[w])
                    /\ urlparse_query(response[w].next_page) = request[w].query

C6_Witness ==
    \E w \in Workers :
        /\ Done(w)
        /\ ~request[w].is_authenticated
        /\ locals[w].has_perm = "False"
        /\ response[w].kind = "cas_login"
        /\ request[w].query = <<"ticket=", "ST-1">>

\* The stages that come after the path has been accepted.
LateCalls == {"translations.get", "Version.first", "has_perm", "cas_login",
              "serve", "storage.url"}

\* serve_docs ran for worker w's request, on a project that is not
\* single-version.
OnVersionedProject(w) ==
    /\ locals[w].current_project # None
    /\ ~ProjectTable[locals[w].current_project].single_version

\* C7: on a project that is not single-version, a request without lang_slug
\* or without version_slug, other than the bare root request, ends in a
\* not-found response before any translation lookup, Version lookup,
\* authorization call or storage access.
C7_IncompletePathIsNotFound ==
    \A w \in Workers :
        (/\ pc[w] # "idle"
         /\ OnVersionedProject(w)
         /\ request[w].lang_slug = None \/ request[w].version_slug = None
         /\ ~(/\ request[w].lang_slug = None
              /\ request[w].version_slug = None
              /\ request[w].filename = <<>>))
            => /\ Done(w)
               /\ response[w].kind = "not_found"
               /\ \A op \in LateCalls : ~Called(w, op)

C7_Witness ==
    \E w \in Workers :
        /\ Done(w)
        /\ OnVersionedProject(w)
        /\ request[w].lang_slug = "en"
        /\ request[w].version_slug = None
        /\ response[w].kind = "not_found"

\* C8: on a project that is not single-version, the bare root request (no
\* lang_slug, no version_slug, empty filename) is redirected to the URL
\* resolve() gives for the resolved project with the request's query string
\* unchanged, without Version lookup, authorization call or storage access.
C8_RootRequestRedirects ==
    \A w \in Workers :
        (/\ pc[w] # "idle"
         /\ OnVersionedProject(w)
         /\ request[w].lang_slug = None
         /\ request[w].version_slug = None
         /\ request[w].filename = <<>>)
            => /\ Done(w)
               /\ response[w].kind = "redirect"
               /\ response[w].resolve_project = locals[w].current_project
               /\ response[w].resolve_query = request[w].query
               /\ \A op \in LateCalls : ~Called(w, op)

C8_Witness ==
    \E w \in Workers :
        /\ Done(w)
        /\ response[w].kind = "redirect"
        /\ locals[w].subproject = "docs"
        /\ response[w].resolve_project = "docs"
        /\ response[w].resolve_query = <<"page=2">>

\* Children of the relationships of parent whose alias is slug.
AliasChildren(parent, slug) ==
    {RelationshipTable[i].child :
        i \in {j \in DOMAIN RelationshipTable :
                  RelationshipTable[j].parent = parent /\ RelationshipTable[j].alias = slug}}

\* Children of parent whose own slug is slug.
SlugChildren(parent, slug) ==
    {RelationshipTable[i].child :
        i \in {j \in DOMAIN RelationshipTable :
                  RelationshipTable[j].parent = parent /\ RelationshipTable[j].child = slug}}

\* C9: a subproject slug resolves to the child of the relationship of the
\* parent with that alias, even when another child of the parent has that
\* slug; to the child with that slug only when no alias matches; and to a
\* not-found response, without running the wrapped view, when neither does.
C9_SubprojectAliasFirst ==
    \A w \in Workers :
        (pc[w] # "idle" /\ locals[w].project # None /\ Truthy(request[w].subproject_slug))
            => LET parent == locals[w].project
                   slug == request[w].subproject_slug
               IN /\ AliasChildren(parent, slug) # {}
                        => locals[w].subproject \in AliasChildren(parent, slug)
                  /\ (AliasChildren(parent, slug) = {} /\ SlugChildren(parent, slug) # {})
                        => locals[w].subproject = slug
                  /\ (AliasChildren(parent, slug) = {} /\ SlugChildren(parent, slug) = {})
                        => /\ Done(w)
                           /\ response[w].kind = "not_found"
                           /\ locals[w].current_project = None
                           /\ \A op \in LateCalls \cup {"resolve"} : ~Called(w, op)
                  /\ locals[w].subproject # None
                        => locals[w].current_project = locals[w].subproject

C9_Witness ==
    \E w \in Workers :
        /\ Done(w)
        /\ locals[w].project = "acme"
        /\ request[w].subproject_slug = "docs"
        /\ "docs" \in SlugChildren("acme", "docs")
        /\ locals[w].subproject = "sub-a"
        /\ locals[w].current_project = "sub-a"

\* Positions of op in worker w's calls.
Positions(w, op) == {i \in DOMAIN calls[w] : calls[w][i] = op}

\* C10: in every run of serve_docs that gets past the path and translation
\* stages, has_perm is called exactly once, after the Version lookup and
\* before any storage call; no storage call happens without it.
C10_GateOnceBetweenLookupAndStorage ==
    \A w \in Workers :
        /\ locals[w].final_project # None =>
              /\ TimesCalled(w, "has_perm") = 1
              /\ TimesCalled(w, "Version.first") = 1
              /\ \A v \in Positions(w, "Version.first"), g \in Positions(w, "has_perm") : v < g
              /\ \A g \in Positions(w, "has_perm"),
                    st \in Positions(w, "serve") \cup Positions(w, "storage.url") : g < st
        /\ StorageAccessed(w) => TimesCalled(w, "has_perm") = 1
        /\ locals[w].final_project = None => ~Called(w, "has_perm")

C10_Witness ==
    \E w \in Workers :
        /\ Done(w)
        /\ calls[w] = <<"Project.get", "Version.first", "has_perm", "storage.url">>
        /\ response[w].kind = "nginx"

\* Number of storage calls worker w's request made.
StorageCalls(w) == TimesCalled(w, "serve") + TimesCalled(w, "storage.url")

\* C11: the storage path of a served request is the storage root of (final
\* project, version slug), "/", the filename, and "index.html" exactly when
\* that ends in "/" (so also for the empty filename); it is the one path
\* given to the storage.
C11_StoragePathWithIndex ==
    \A w \in Workers :
        StorageAccessed(w) =>
            LET f == locals[w].filename
                plain == get_storage_path(locals[w].final_project, locals[w].version_slug)
                            \o <<"/">> \o f
            IN /\ (f = <<>> \/ f[Len(f)] = "/")
                    => locals[w].path = plain \o <<"index.html">>
               /\ (f # <<>> /\ f[Len(f)] # "/") => locals[w].path = plain
               /\ StorageCalls(w) = 1
               /\ response[w].kind = "serve" => response[w].path = locals[w].path

C11_Witness ==
    \E w \in Workers :
        /\ Done(w)
        /\ response[w].kind = "serve"
        /\ locals[w].filename = <<"guide", "/">>
        /\ locals[w].path = <<"html", "/", "acme", "/", "latest", "/", "guide", "/", "index.html">>

\* serve_docs ran for worker w's request and got past the root redirect and
\* the invalid-URL test.
ReachesTranslationStage(w) ==
    /\ locals[w].current_project # None
    /\ \/ ProjectTable[locals[w].current_project].single_version
       \/ request[w].lang_slug # None /\ request[w].version_slug # None

\* The request addresses a single-version project with both slugs.
OverSupplied(w) ==
    /\ ProjectTable[locals[w].current_project].single_version
    /\ Truthy(request[w].lang_slug)
    /\ Truthy(request[w].version_slug)

\* Translations of project p in language lang.
TranslationsOf(p, lang) ==
    {t[2] : t \in {u \in TranslationTable : u[1] = p /\ ProjectTable[u[2]].language = lang}}

\* What translation resolution does with language lang for worker w's
\* request: the translation, or not-found before any later stage.
ResolvedThroughTranslation(w, lang) ==
    LET found == TranslationsOf(locals[w].current_project, lang)
    IN /\ found # {} => locals[w].final_project \in found
       /\ found = {} =>
            /\ Done(w)
            /\ response[w].kind = "not_found"
            /\ locals[w].final_project = None
            /\ \A op \in {"Version.first", "has_perm", "cas_login", "serve", "storage.url"} :
                  ~Called(w, op)

\* C12 (as claimed): when the request's lang_slug is present and differs from
\* the resolved project's language the final project is the translation in
\* that language, or the request ends in not-found before any Version
\* lookup, authorization call or storage access; otherwise the final project
\* is the resolved project.
C12_TranslationByRequestLang ==
    \A w \in Workers :
        ReachesTranslationStage(w) =>
            IF /\ request[w].lang_slug # None
               /\ request[w].lang_slug # ProjectTable[locals[w].current_project].language
            THEN ResolvedThroughTranslation(w, request[w].lang_slug)
            ELSE locals[w].final_project = locals[w].current_project

\* C12 (amended): the same, except that a single-version project addressed
\* with both lang_slug and version_slug has them folded into the filename
\* first, and then the final project is the resolved project itself.
C12_TranslationAfterFolding ==
    \A w \in Workers :
        ReachesTranslationStage(w) =>
            IF /\ ~OverSupplied(w)
               /\ request[w].lang_slug # None
               /\ request[w].lang_slug # ProjectTable[locals[w].current_project].language
            THEN ResolvedThroughTranslation(w, request[w].lang_slug)
            ELSE /\ locals[w].final_project = locals[w].current_project
                 /\ ~Called(w, "translations.get")

C12_Witness ==
    \E w \in Workers :
        /\ Done(w)
        /\ locals[w].current_project = "acme"
        /\ request[w].lang_slug = "fr"
        /\ locals[w].final_project = "acme-fr"
        /\ Called(w, "translations.get")

\* Children of parent, under whatever alias.
ChildrenOf(parent) ==
    {RelationshipTable[i].child :
        i \in {j \in DOMAIN RelationshipTable : RelationshipTable[j].parent = parent}}

\* C13: for every request that reaches the storage, the final project is the
\* host project, a subproject of the host project, or a translation of
\* whichever of the two was resolved: at most one subproject hop, then at
\* most one translation hop.
C13_FinalProjectWithinOneHop ==
    \A w \in Workers :
        StorageAccessed(w) =>
            /\ locals[w].project = request[w].host_project_slug
            /\ locals[w].subproject # None
                  => locals[w].subproject \in ChildrenOf(locals[w].project)
            /\ locals[w].current_project =
                  (IF locals[w].subproject # None
                   THEN locals[w].subproject ELSE locals[w].project)
            /\ \/ locals[w].final_project = locals[w].current_project
               \/ <<locals[w].current_project, locals[w].final_project>> \in TranslationTable

C13_Witness ==
    \E w \in Workers :
        /\ Done(w)
        /\ StorageAccessed(w)
        /\ locals[w].project = "acme"
        /\ locals[w].subproject = "sub-a"
        /\ locals[w].final_project = "sub-a-fr"

\* Worker w's request got past the access gate: serve_docs reached the
\* Version lookup and did not return the CAS login.
PassedGate(w) ==
    /\ Done(w)
    /\ locals[w].final_project # None
    /\ response[w].kind # "cas_login"

\* C14: for every request past the access gate exactly one dispatch path
\* runs, chosen by settings.PYTHON_MEDIA alone: the direct serve without a
\* signed URL, or the signed URL without a direct serve, answered with status
\* 200 and an X-Accel-Redirect of "/proxito/" and the signed URL's path and
\* query, scheme and host removed (in the form iri_to_uri gives it).
C14_OneDispatchPathByConfiguration ==
    \A w \in Workers :
        PassedGate(w) =>
            /\ StorageCalls(w) = 1
            /\ settings.PYTHON_MEDIA =>
                  /\ Called(w, "serve")
                  /\ ~Called(w, "storage.url")
                  /\ response[w].kind \in {"serve", "not_found"}
                  /\ response[w].x_accel_redirect = <<>>
            /\ ~settings.PYTHON_MEDIA =>
                  LET url == storage_url(locals[w].path)
                      header == response[w].x_accel_redirect
                  IN /\ Called(w, "storage.url")
                     /\ ~Called(w, "serve")
                     /\ response[w].kind = "nginx"
                     /\ response[w].status = 200
                     /\ url[1] = "https://" /\ url[2] = "media.storage" /\ url[3] = "/"
                     /\ header = iri_to_uri(<<"/", "proxito", "/">> \o SubSeq(url, 4, Len(url)))
                     /\ \A i \in DOMAIN header : header[i] \notin {"https://", "media.storage"}

C14_Witness ==
    \E w \in Workers :
        /\ PassedGate(w)
        /\ ~settings.PYTHON_MEDIA
        /\ response[w].x_accel_redirect =
              <<"/", "proxito", "/", "html", "/", "acme", "/", "latest", "/", "index.html",
                "?", "Signature=", "sig">>

\* The non-ASCII characters, and the texts of their percent-escapes.
NonAscii == DOMAIN PercentEncoded

Escapes == {PercentEncoded[c] : c \in NonAscii}

\* Decoding of a URI into an IRI: every percent-escape of a non-ASCII
\* character becomes that character.
uri_to_iri(uri) ==
    [i \in 1 .. Len(uri) |->
        IF uri[i] \in Escapes
        THEN CHOOSE c \in NonAscii : PercentEncoded[c] = uri[i]
        ELSE uri[i]]

IsAscii(s) == \A i \in DOMAIN s : s[i] \notin NonAscii

C16_OverSuppliedPathIsFolded ==
    \A w \in Workers :
        (locals[w].current_project # None /\ OverSupplied(w)) =>
            LET project == locals[w].current_project
                folded == <<request[w].lang_slug, "/", request[w].version_slug, "/">>
                             \o request[w].filename
                plain == get_storage_path(project, ProjectTable[project].default_version)
                            \o <<"/">> \o folded
            IN /\ locals[w].filename = folded
               /\ locals[w].lang_slug = None
               /\ ~Called(w, "translations.get")
               /\ locals[w].final_project = project
               /\ StorageAccessed(w) =>
                    locals[w].path =
                        (IF folded[Len(folded)] = "/"
                         THEN plain \o <<"index.html">> ELSE plain)

\* C17: serve_docs answers with the canonical-URL redirect only when
\* lang_slug, version_slug and filename are all absent on a project that is
\* not single-version; folding, default version and translation never
\* redirect.
C17_RedirectOnlyForBareRoot ==
    \A w \in Workers :
        (pc[w] # "idle" /\ locals[w].current_project # None) =>
            /\ (\/ request[w].lang_slug # None
                \/ request[w].version_slug # None
                \/ request[w].filename # <<>>
                \/ ProjectTable[locals[w].current_project].single_version)
                  => /\ response[w].kind # "redirect"
                     /\ ~Called(w, "resolve")
            /\ response[w].kind = "redirect"
                  => /\ request[w].lang_slug = None
                     /\ request[w].version_slug = None
                     /\ request[w].filename = <<>>

C17_Witness ==
    \E w \in Workers :
        /\ Done(w)
        /\ locals[w].current_project = "solo"
        /\ request[w].lang_slug = None
        /\ request[w].version_slug = None
        /\ request[w].filename = <<>>
        /\ response[w].kind = "serve"
        /\ locals[w].version_slug = "stable"

\* C18: with no project and no project_slug supplied, map_project_slug looks
\* the project up by request.host_project_slug; when there is none the
\* request ends in not-found and neither the subproject lookup nor the view
\* runs; a project that is supplied (as serve_docs supplies one to
\* redirect_project_slug) is passed through unchanged with no lookup.
C18_BaseProjectFromHost ==
    \A w \in Workers :
        pc[w] # "idle" =>
            /\ calls[w][1] = "Project.get"
            /\ TimesCalled(w, "Project.get") = 1
            /\ request[w].host_project_slug \in ProjectSlugs
                  => locals[w].project = request[w].host_project_slug
            /\ request[w].host_project_slug \notin ProjectSlugs
                  => /\ Done(w)
                     /\ response[w].kind = "not_found"
                     /\ calls[w] = <<"Project.get">>
                     /\ locals[w] = NoLocals
            /\ response[w].kind = "redirect"
                  => /\ response[w].resolve_project = locals[w].current_project
                     /\ calls[w][Len(calls[w])] = "resolve"

C18_Witness ==
    \E w \in Workers :
        /\ Done(w)
        /\ request[w].host_project_slug = "ghost"
        /\ request[w].subproject_slug = "docs"
        /\ response[w].kind = "not_found"
        /\ calls[w] = <<"Project.get">>

\* The elements of a sequence.
Range(q) == {q[i] : i \in DOMAIN q}

\* C19: RTDFacetedSearch.__init__ moves every keyword that is a facet of the
\* class into filters under its name with its value, passes no keyword named
\* in ALL_FACETS on (those that are not facets of the class are dropped), and
\* passes every other keyword on unchanged; filters keeps the caller's other
\* entries.
C19_FacetKeywordsBecomeFilters ==
    search.built =>
        LET given == search.kwargs
            passed == search.passed
            moved == Range(facets(search.cls)) \cap DOMAIN given
            others == DOMAIN given \ (Range(ALL_FACETS) \cup {"filters"})
        IN /\ \A f \in moved :
                 /\ "filters" \in DOMAIN passed
                 /\ f \in DOMAIN passed["filters"]
                 /\ passed["filters"][f] = given[f]
           /\ \A f \in Range(ALL_FACETS) : f \notin DOMAIN passed
           /\ \A k \in others : k \in DOMAIN passed /\ passed[k] = given[k]
           /\ DOMAIN passed \subseteq others \cup {"filters"}
           /\ "filters" \in DOMAIN passed <=> (moved # {} \/ "filters" \in DOMAIN given)
           /\ "filters" \in DOMAIN passed =>
                 /\ DOMAIN passed["filters"] =
                       moved \cup (IF "filters" \in DOMAIN given
                                   THEN DOMAIN given["filters"] ELSE {})
                 /\ \A f \in DOMAIN passed["filters"] \ moved :
                       passed["filters"][f] = given["filters"][f]

C19_Witness ==
    /\ search.built
    /\ search.cls = "PageSearch"
    /\ DOMAIN search.kwargs = {"project", "language", "query", "filters"}
    /\ search.kwargs["filters"] = DictSet(EmptyDict, "project", "old")
    /\ DOMAIN search.passed = {"query", "filters"}
    /\ search.passed["filters"] = DictSet(EmptyDict, "project", "new")

====
